---- MODULE Spec2Model ----
(***************************************************************************)
(* Speedread-Splitter (src/main.py): the text normalizer clean_text, the   *)
(* word counter count_words and the main splitting loop of split_book.     *)
(*                                                                         *)
(* A text is a sequence of one-character strings.  Offsets are Python's    *)
(* 0-based offsets: the character at offset i is text[i + 1].              *)
(***************************************************************************)
EXTENDS Integers, Sequences, FiniteSets, TLC

VARIABLES
    full_text,          \* the document (after extraction and optional cleaning)
    words_per_minute,   \* configuration
    minutes_per_day,    \* configuration
    total_words,        \* count_words(full_text), line 304 of src/main.py
    pc,                 \* position of split_book: "phrase", "date", "loop",
                        \* "write", "done", "aborted", "notfound"; "normalize" in CleanSpec
    current_pos,        \* the cursor
    current_date,       \* proleptic Gregorian ordinal of the current chunk's day
    chunk_count,        \* number of chunks written
    fs,                 \* output directory: file name |-> file content
    pbar,               \* progress bar: cumulative words reported
    stats,              \* final statistics, NoStats until they are produced
    chunks,             \* history: one record per chunk written, in order
    initial_pos,        \* history: the cursor when the loop was entered
    start_date,         \* history: the date when the loop was entered
    cur,                \* the locals of the current loop iteration
    ctext,              \* CleanSpec: the text being normalized
    cpasses,            \* CleanSpec: number of clean_text passes applied
    conce               \* CleanSpec: the text after the first pass

vars == <<full_text, words_per_minute, minutes_per_day, total_words, pc,
          current_pos, current_date, chunk_count, fs, pbar, stats, chunks,
          initial_pos, start_date, cur, ctext, cpasses, conce>>

runVars == <<full_text, words_per_minute, minutes_per_day, total_words,
             current_pos, current_date, chunk_count, fs, pbar, stats, chunks,
             initial_pos, start_date>>

cleanVars == <<ctext, cpasses, conce>>

-----------------------------------------------------------------------------
(* Bounds of the model and constants of the program *)

MaxSegs == 4         \* pieces per generated document
MaxCleanLen == 6     \* characters per generated normalizer input
Window == 100        \* the snap window of lines 419 and 421
MaxMarker == 999     \* range(1, 1000) of line 171

-----------------------------------------------------------------------------
(* Characters *)

NonWordChars == {" ", "\n", ".", "[", "]"}

\* \w of the regular expression: every character of the model's alphabet
\* that is not punctuation or whitespace
IsWord(c) == c \notin NonWordChars

\* the characters str.strip() removes
IsSpace(c) == c \in {" ", "\n"}

\* text[a:b] for 0 <= a, with b clamped to len(text)
Slice(text, a, b) == SubSeq(text, a + 1, IF b > Len(text) THEN Len(text) ELSE b)

\* text.find(pat, start): the lowest offset >= start at which pat occurs, or -1
Find(text, pat, start) ==
    LET last == Len(text) - Len(pat)
        occurs(i) == \A k \in 1..Len(pat) : text[i + k] = pat[k]
    IN  IF \E i \in start..last : occurs(i)
        THEN CHOOSE i \in start..last :
                 occurs(i) /\ \A j \in start..(i - 1) : ~occurs(j)
        ELSE -1

\* text.strip(): from the first to the last character that is not whitespace
Strip(text) ==
    LET n == Len(text)
        kept(i) == ~IsSpace(text[i])
    IN  IF \E i \in 1..n : kept(i)
        THEN SubSeq(text,
                    CHOOSE i \in 1..n : kept(i) /\ \A j \in 1..(i - 1) : ~kept(j),
                    CHOOSE i \in 1..n : kept(i) /\ \A j \in (i + 1)..n : ~kept(j))
        ELSE <<>>

-----------------------------------------------------------------------------
(* Word tokens: re.finditer(r'\b\w+\b', s) *)

NoMatch == [start |-> -1, end |-> -1]

\* the first match of \b\w+\b in s that starts at offset >= from
\* (from is 0 or the end of the previous match)
MatchAt(s, from) ==
    LET n == Len(s)
        begins(i) == IsWord(s[i + 1]) /\ (i = 0 \/ ~IsWord(s[i]))
        stops(j) == j = n \/ ~IsWord(s[j + 1])
    IN  IF \E i \in from..(n - 1) : begins(i)
        THEN LET b == CHOOSE i \in from..(n - 1) :
                          begins(i) /\ \A j \in from..(i - 1) : ~begins(j)
                 e == CHOOSE i \in (b + 1)..n :
                          stops(i) /\ \A j \in (b + 1)..(i - 1) : ~stops(j)
             IN  [start |-> b, end |-> e]
        ELSE NoMatch

RECURSIVE CountFrom(_, _)
CountFrom(s, from) ==
    LET m == MatchAt(s, from)
    IN  IF m = NoMatch THEN 0 ELSE 1 + CountFrom(s, m.end)

\* count_words(text) = len(re.findall(r'\b\w+\b', text))
count_words(text) == CountFrom(text, 0)

\* The for loop of lines 404-409 over the matches of full_text[pos:], with
\* n words counted so far and last the current last_match_end.
RECURSIVE WordLoop(_, _, _, _, _, _)
WordLoop(s, pos, from, n, last, target) ==
    LET m == MatchAt(s, from)
    IN  IF m = NoMatch THEN [words |-> n, last |-> last]
        ELSE IF n + 1 >= target
             THEN [words |-> n + 1, last |-> pos + m.end]
             ELSE WordLoop(s, pos, m.end, n + 1, pos + m.end, target)

\* lines 400-409: words_in_chunk and last_match_end
ScanWords(text, pos, target) ==
    WordLoop(Slice(text, pos, Len(text)), pos, 0, 0, pos, target)

\* SnapEnd with the sentence break tried before the paragraph break
SnapEnd_SentenceFirst(text, last_match_end) ==
    LET next_para == Find(text, <<"\n", "\n">>, last_match_end)
        next_dot  == Find(text, <<".", " ">>, last_match_end)
    IN  IF next_dot # -1 /\ next_dot < last_match_end + Window
        THEN next_dot + 2
        ELSE IF next_para # -1 /\ next_para < last_match_end + Window
             THEN next_para + 2
             ELSE last_match_end

\* SnapEnd with the nearer of the two breaks chosen
SnapEnd_Nearest(text, last_match_end) ==
    LET next_para == Find(text, <<"\n", "\n">>, last_match_end)
        next_dot  == Find(text, <<".", " ">>, last_match_end)
        para_ok   == next_para # -1 /\ next_para < last_match_end + Window
        dot_ok    == next_dot # -1 /\ next_dot < last_match_end + Window
    IN  IF para_ok /\ (~dot_ok \/ next_para < next_dot)
        THEN next_para + 2
        ELSE IF dot_ok THEN next_dot + 2 ELSE last_match_end

\* SnapEnd with a window that includes offset last_match_end + Window
SnapEnd_Inclusive(text, last_match_end) ==
    LET next_para == Find(text, <<"\n", "\n">>, last_match_end)
        next_dot  == Find(text, <<".", " ">>, last_match_end)
    IN  IF next_para # -1 /\ next_para <= last_match_end + Window
        THEN next_para + 2
        ELSE IF next_dot # -1 /\ next_dot <= last_match_end + Window
             THEN next_dot + 2
             ELSE last_match_end

\* SnapEnd that also skips the character after a break
SnapEnd_SkipsThree(text, last_match_end) ==
    LET next_para == Find(text, <<"\n", "\n">>, last_match_end)
        next_dot  == Find(text, <<".", " ">>, last_match_end)
    IN  IF next_para # -1 /\ next_para < last_match_end + Window
        THEN next_para + 3
        ELSE IF next_dot # -1 /\ next_dot < last_match_end + Window
             THEN next_dot + 3
             ELSE last_match_end

\* SnapEnd that takes a period for a sentence break whatever follows it
SnapEnd_BareDot(text, last_match_end) ==
    LET next_para == Find(text, <<"\n", "\n">>, last_match_end)
        next_dot  == Find(text, <<".">>, last_match_end)
    IN  IF next_para # -1 /\ next_para < last_match_end + Window
        THEN next_para + 2
        ELSE IF next_dot # -1 /\ next_dot < last_match_end + Window
             THEN next_dot + 2
             ELSE last_match_end

\* lines 415-424: the chunk end chosen for a raw end
SnapEnd(text, last_match_end) ==
    LET next_para == Find(text, <<"\n", "\n">>, last_match_end)
        next_dot  == Find(text, <<".", " ">>, last_match_end)
    IN  IF next_para # -1 /\ next_para < last_match_end + Window
        THEN next_para + 2
        ELSE IF next_dot # -1 /\ next_dot < last_match_end + Window
             THEN next_dot + 2
             ELSE last_match_end

-----------------------------------------------------------------------------
(* Dates: datetime as a proleptic Gregorian ordinal, strftime('%Y-%m-%d') *)

DaysBeforeMonth(m) ==
    CASE m = 1 -> 0   [] m = 2 -> 31  [] m = 3 -> 59  [] m = 4 -> 90
      [] m = 5 -> 120 [] m = 6 -> 151 [] m = 7 -> 181 [] m = 8 -> 212
      [] m = 9 -> 243 [] m = 10 -> 273 [] m = 11 -> 304 [] m = 12 -> 334

DaysInMonth(m) ==
    CASE m \in {1, 3, 5, 7, 8, 10, 12} -> 31
      [] m \in {4, 6, 9, 11} -> 30
      [] m = 2 -> 28

\* the year, month and day fields that strftime('%Y-%m-%d') prints
Strftime(ordinal) ==
    LET n0   == ordinal - 1
        n400 == n0 \div 146097
        r400 == n0 % 146097
        n100 == r400 \div 36524
        r100 == r400 % 36524
        n4   == r100 \div 1461
        r4   == r100 % 1461
        n1   == r4 \div 365
        n    == r4 % 365
        year == n400 * 400 + 1 + n100 * 100 + n4 * 4 + n1
        leap == n1 = 3 /\ (n4 # 24 \/ n100 = 3)
        m0   == (n + 50) \div 32
        p0   == DaysBeforeMonth(m0) + (IF m0 > 2 /\ leap THEN 1 ELSE 0)
        month == IF p0 > n THEN m0 - 1 ELSE m0
        prec == IF p0 > n
                THEN p0 - (DaysInMonth(month)
                           + (IF month = 2 /\ leap THEN 1 ELSE 0))
                ELSE p0
    IN  IF n1 = 4 \/ n100 = 4 THEN <<year - 1, 12, 31>>
        ELSE <<year, month, n - prec + 1>>

-----------------------------------------------------------------------------
(* Inputs *)

Filler == [i \in 1..Window |-> "."]

Pieces == {<<"a">>, <<" ">>, <<".">>, <<"\n">>, Filler}

RECURSIVE Flatten(_)
Flatten(ps) == IF ps = <<>> THEN <<>> ELSE Head(ps) \o Flatten(Tail(ps))

ExampleText ==
    <<"A", "l", "p", "h", "a", " ", "b", "e", "t", "a", " ", "g", "a", "m",
      "m", "a", ".", " ", "D", "e", "l", "t", "a", " ", "e", "p", "s", "i",
      "l", "o", "n", ".", "\n", "\n", "Z", "e", "t", "a", " ", "e", "t", "a",
      " ", "t", "h", "e", "t", "a", " ", "i", "o", "t", "a", ".">>

Docs ==
    {ExampleText} \cup
    UNION {{Flatten(ps) : ps \in [1..n -> Pieces]} : n \in 0..MaxSegs}

WpmChoices == {1, 3}

MinutesChoices == {1, 2}

\* what the user may type at the start phrase prompt (before .strip())
StartPhrases == {<<>>, <<" ">>, <<"a", ".">>, <<".">>, <<"l">>}

\* 2023-12-30 and 2024-02-27: the runs cross a year end and a leap day
StartDates == {738884, 738943}

NoStats == [produced |-> FALSE]

NoChunk ==
    [go |-> FALSE, chunk_start |-> 0, words_in_chunk |-> 0, raw_end |-> 0,
     chunk_end |-> 0, chunk_text |-> <<>>, actual_words |-> 0,
     date_str |-> <<>>, filename |-> <<>>]

-----------------------------------------------------------------------------
(* split_book from the start phrase prompt on *)

words_per_chunk == words_per_minute * minutes_per_day

Init ==
    /\ full_text \in Docs
    /\ words_per_minute \in WpmChoices
    /\ minutes_per_day \in MinutesChoices
    /\ total_words = count_words(full_text)
    /\ pc = "phrase"
    /\ current_pos = 0
    /\ current_date = 0
    /\ chunk_count = 0
    /\ fs = <<>>
    /\ pbar = 0
    /\ stats = NoStats
    /\ chunks = <<>>
    /\ initial_pos = 0
    /\ start_date = 0
    /\ cur = NoChunk
    /\ ctext = <<>>
    /\ cpasses = 0
    /\ conce = <<>>

\* lines 366-376
AskStartPhrase ==
    /\ pc = "phrase"
    /\ \E typed \in StartPhrases :
          LET start_text == Strip(typed)
              found == Find(full_text, start_text, 0)
          IN  IF start_text # <<>> /\ found = -1
              THEN /\ pc' = "notfound"
                   /\ UNCHANGED <<current_pos, initial_pos>>
              ELSE /\ pc' = "date"
                   /\ current_pos' = (IF start_text # <<>> THEN found ELSE 0)
                   /\ initial_pos' = current_pos'
    /\ UNCHANGED <<full_text, words_per_minute, minutes_per_day, total_words,
                   current_date, chunk_count, fs, pbar, stats, chunks,
                   start_date, cur>>
    /\ UNCHANGED cleanVars

\* lines 379-396
AskStartDate ==
    /\ pc = "date"
    /\ \E d \in StartDates :
          /\ current_date' = d
          /\ start_date' = d
    /\ chunk_count' = 0
    /\ pbar' = 0
    /\ pc' = "loop"
    /\ UNCHANGED <<full_text, words_per_minute, minutes_per_day, total_words,
                   current_pos, fs, stats, chunks, initial_pos, cur>>
    /\ UNCHANGED cleanVars

\* lines 399-436 of one iteration: everything computed before the write;
\* go is FALSE when the loop ends at line 399, 412 or 429
Segment ==
    IF current_pos >= Len(full_text) THEN NoChunk
    ELSE
    LET scan       == ScanWords(full_text, current_pos, words_per_chunk)
        chunk_end  == SnapEnd(full_text, scan.last)
        chunk_text == Strip(Slice(full_text, current_pos, chunk_end))
        words      == count_words(chunk_text)
        date_str   == Strftime(current_date)
    IN  IF scan.words = 0 THEN NoChunk
        ELSE [go             |-> chunk_text # <<>>,
              chunk_start    |-> current_pos,
              words_in_chunk |-> scan.words,
              raw_end        |-> scan.last,
              chunk_end      |-> chunk_end,
              chunk_text     |-> chunk_text,
              actual_words   |-> words,
              date_str       |-> date_str,
              filename       |-> <<date_str, words, words_per_minute>>]

\* open(filepath, 'w') followed by f.write(chunk_text)
WriteFile(files, name, content) ==
    [n \in (DOMAIN files) \cup {name} |->
        IF n = name THEN content ELSE files[n]]

\* lines 399-436: the loop goes on and the next chunk is cut
ScanChunk ==
    /\ pc = "loop"
    /\ LET c == Segment
       IN  /\ c.go
           /\ cur' = c
    /\ pc' = "write"
    /\ UNCHANGED runVars
    /\ UNCHANGED cleanVars

\* WriteChunk that moves the cursor to the raw end, not to the snapped end
WriteChunk_CursorToRawEnd ==
    /\ pc = "write"
    /\ fs' = WriteFile(fs, cur.filename, cur.chunk_text)
    /\ current_pos' = cur.raw_end
    /\ current_date' = current_date + 1
    /\ chunk_count' = chunk_count + 1
    /\ pbar' = pbar + cur.actual_words
    /\ chunks' = Append(chunks,
                        [start |-> cur.chunk_start, end |-> cur.chunk_end,
                         raw_end |-> cur.raw_end, text |-> cur.chunk_text,
                         words |-> cur.actual_words, date |-> current_date,
                         date_str |-> cur.date_str, name |-> cur.filename])
    /\ pc' = "loop"
    /\ UNCHANGED <<full_text, words_per_minute, minutes_per_day, total_words,
                   stats, initial_pos, start_date, cur>>
    /\ UNCHANGED cleanVars

\* WriteChunk that does not advance the date
WriteChunk_SameDate ==
    /\ pc = "write"
    /\ fs' = WriteFile(fs, cur.filename, cur.chunk_text)
    /\ current_pos' = cur.chunk_end
    /\ current_date' = current_date
    /\ chunk_count' = chunk_count + 1
    /\ pbar' = pbar + cur.actual_words
    /\ chunks' = Append(chunks,
                        [start |-> cur.chunk_start, end |-> cur.chunk_end,
                         raw_end |-> cur.raw_end, text |-> cur.chunk_text,
                         words |-> cur.actual_words, date |-> current_date,
                         date_str |-> cur.date_str, name |-> cur.filename])
    /\ pc' = "loop"
    /\ UNCHANGED <<full_text, words_per_minute, minutes_per_day, total_words,
                   stats, initial_pos, start_date, cur>>
    /\ UNCHANGED cleanVars

\* WriteChunk that does not move the cursor
WriteChunk_KeepsCursor ==
    /\ pc = "write"
    /\ fs' = WriteFile(fs, cur.filename, cur.chunk_text)
    /\ current_pos' = current_pos
    /\ current_date' = current_date + 1
    /\ chunk_count' = chunk_count + 1
    /\ pbar' = pbar + cur.actual_words
    /\ chunks' = Append(chunks,
                        [start |-> cur.chunk_start, end |-> cur.chunk_end,
                         raw_end |-> cur.raw_end, text |-> cur.chunk_text,
                         words |-> cur.actual_words, date |-> current_date,
                         date_str |-> cur.date_str, name |-> cur.filename])
    /\ pc' = "loop"
    /\ UNCHANGED <<full_text, words_per_minute, minutes_per_day, total_words,
                   stats, initial_pos, start_date, cur>>
    /\ UNCHANGED cleanVars

\* lines 438-452, the write succeeds
WriteChunk ==
    /\ pc = "write"
    /\ fs' = WriteFile(fs, cur.filename, cur.chunk_text)
    /\ current_pos' = cur.chunk_end
    /\ current_date' = current_date + 1
    /\ chunk_count' = chunk_count + 1
    /\ pbar' = pbar + cur.actual_words
    /\ chunks' = Append(chunks,
                        [start |-> cur.chunk_start, end |-> cur.chunk_end,
                         raw_end |-> cur.raw_end, text |-> cur.chunk_text,
                         words |-> cur.actual_words, date |-> current_date,
                         date_str |-> cur.date_str, name |-> cur.filename])
    /\ pc' = "loop"
    /\ UNCHANGED <<full_text, words_per_minute, minutes_per_day, total_words,
                   stats, initial_pos, start_date, cur>>
    /\ UNCHANGED cleanVars

\* WriteFails that skips the chunk and goes on with the next one
WriteFails_SkipChunk ==
    /\ pc = "write"
    /\ \/ fs' = fs
       \/ \E k \in {0, Len(cur.chunk_text) - 1} :
             fs' = WriteFile(fs, cur.filename, SubSeq(cur.chunk_text, 1, k))
    /\ current_pos' = cur.chunk_end
    /\ current_date' = current_date + 1
    /\ pc' = "loop"
    /\ UNCHANGED <<full_text, words_per_minute, minutes_per_day, total_words,
                   chunk_count, pbar, stats, chunks, initial_pos, start_date,
                   cur>>
    /\ UNCHANGED cleanVars

\* lines 438-445, the write raises: either open() fails and the directory is
\* as it was, or the file was opened (created or truncated) and the failure
\* left a prefix of the text in it
WriteFails ==
    /\ pc = "write"
    /\ \/ fs' = fs
       \/ \E k \in {0, Len(cur.chunk_text) - 1} :
             fs' = WriteFile(fs, cur.filename, SubSeq(cur.chunk_text, 1, k))
    /\ pc' = "aborted"
    /\ UNCHANGED <<full_text, words_per_minute, minutes_per_day, total_words,
                   current_pos, current_date, chunk_count, pbar, stats, chunks,
                   initial_pos, start_date, cur>>
    /\ UNCHANGED cleanVars

\* the loop ends (line 399, 412 or 429) and lines 454-468 report
FinishRun ==
    /\ pc = "loop"
    /\ ~Segment.go
    /\ stats' = [produced |-> TRUE,
                 files |-> chunk_count,
                 minutes |-> total_words \div words_per_minute,
                 avg_chunk_words |-> IF chunk_count > 0
                                     THEN total_words \div chunk_count ELSE 0]
    /\ pc' = "done"
    /\ UNCHANGED <<full_text, words_per_minute, minutes_per_day, total_words,
                   current_pos, current_date, chunk_count, fs, pbar, chunks,
                   initial_pos, start_date, cur>>
    /\ UNCHANGED cleanVars

-----------------------------------------------------------------------------
(* clean_text, lines 168-175 *)

DigitChar(d) ==
    CASE d = 0 -> "0" [] d = 1 -> "1" [] d = 2 -> "2" [] d = 3 -> "3"
      [] d = 4 -> "4" [] d = 5 -> "5" [] d = 6 -> "6" [] d = 7 -> "7"
      [] d = 8 -> "8" [] d = 9 -> "9"

\* the decimal digits that an f-string prints for i
RECURSIVE Str(_)
Str(i) == IF i < 10 THEN <<DigitChar(i)>>
          ELSE Str(i \div 10) \o <<DigitChar(i % 10)>>

\* the caption prefixes of lines 173 and 174 (the Russian words for "Fig. "
\* and "Table "), their Cyrillic letters written as the Latin letters
\* R i s and T a b l i c a
FigPrefix == <<"R", "i", "s", ".", " ">>

TabPrefix == <<"T", "a", "b", "l", "i", "c", "a", " ">>

\* text[from:].replace(old, ''): the occurrences of old are found left to
\* right, each search starting after the previous occurrence
RECURSIVE RemoveAll(_, _, _)
RemoveAll(text, old, from) ==
    LET i == Find(text, old, from)
    IN  IF i = -1 THEN Slice(text, from, Len(text))
        ELSE Slice(text, from, i) \o RemoveAll(text, old, i + Len(old))

\* the body of the loop, lines 172-174
CleanStep(text, i) ==
    LET t1 == RemoveAll(text, <<"[">> \o Str(i) \o <<"]">>, 0)
        t2 == RemoveAll(t1, FigPrefix \o Str(i) \o <<".", " ">>, 0)
    IN  RemoveAll(t2, TabPrefix \o Str(i) \o <<".", " ">>, 0)

\* the loop of line 171 for i = lo, lo + 1, ..., hi in this order.  The range
\* is halved to keep the evaluation's nesting shallow; a text that is already
\* empty after the first half stays empty, whatever is removed from it.
RECURSIVE CleanRange(_, _, _)
CleanRange(text, lo, hi) ==
    IF lo > hi THEN text
    ELSE IF lo = hi THEN CleanStep(text, lo)
    ELSE LET mid == (lo + hi) \div 2
             half == CleanRange(text, lo, mid)
         IN  IF Len(half) = 0 THEN half ELSE CleanRange(half, mid + 1, hi)

clean_text(text) == CleanRange(text, 1, MaxMarker)

CleanAlphabet == {"[", "1", "]"}

MarkerTexts ==
    {<<"x", "[", "1", "2", "]", "y", "[", "9", "9", "9", "]">>,
     <<"[", "1", "[", "2", "]", "]">>,
     <<"[", "[", "2", "]", "1", "]">>,
     <<"[", "1", "0", "0", "0", "]", "[", "0", "]">>,
     FigPrefix \o <<"1", ".", " ", "x">>,
     TabPrefix \o <<"1", "2", ".", " ", "[", "3", "]">>,
     FigPrefix \o <<"1", "[", "2", "]", ".", " ">>,
     FigPrefix \o <<"[", "1", "]", "1", ".", " ">>,
     TabPrefix \o <<"1">> \o FigPrefix \o <<"2", ".", " ", "0", ".", " ">>}

CleanInputs ==
    MarkerTexts \cup
    UNION {[1..n -> CleanAlphabet] : n \in 0..MaxCleanLen}

CleanInit ==
    /\ ctext \in CleanInputs
    /\ cpasses = 0
    /\ conce = <<>>
    /\ pc = "normalize"
    /\ full_text = <<>>
    /\ words_per_minute = 1
    /\ minutes_per_day = 1
    /\ total_words = 0
    /\ current_pos = 0
    /\ current_date = 0
    /\ chunk_count = 0
    /\ fs = <<>>
    /\ pbar = 0
    /\ stats = NoStats
    /\ chunks = <<>>
    /\ initial_pos = 0
    /\ start_date = 0
    /\ cur = NoChunk

\* one more pass of clean_text over the text
ApplyClean ==
    /\ pc = "normalize"
    /\ cpasses < 2
    /\ ctext' = clean_text(ctext)
    /\ cpasses' = cpasses + 1
    /\ conce' = (IF cpasses = 0 THEN ctext' ELSE conce)
    /\ UNCHANGED <<pc, cur>>
    /\ UNCHANGED runVars

CleanNext == ApplyClean

CleanSpec == CleanInit /\ [][CleanNext]_vars

-----------------------------------------------------------------------------
Next ==
    AskStartPhrase \/ AskStartDate \/ ScanChunk \/ WriteChunk \/ WriteFails
    \/ FinishRun

Spec == Init /\ [][Next]_vars

\* the run is over: split_book returned (lines 372, 445) or reported (line 468)
Terminated == pc \in {"done", "aborted", "notfound"}

\* split_book is sequential code: whenever it can take its next step, it
\* does.  This is WF_vars(Next) with ENABLED <<Next>>_vars written out: a step
\* is possible exactly in the states that are not Terminated.
FairSpec == Spec /\ ([]<><<Next>>_vars \/ []<>Terminated)

-----------------------------------------------------------------------------
(* Properties *)

\* pat occurs in text at offset q
OccursAt(text, pat, q) ==
    /\ q >= 0
    /\ q + Len(pat) <= Len(text)
    /\ \A k \in 1..Len(pat) : text[q + k] = pat[k]

ParaBreak == <<"\n", "\n">>

SentenceBreak == <<".", " ">>

\* the offsets of the snap window of a raw end
WindowOf(raw_end) == raw_end..(raw_end + Window - 1)

\* the paragraph breaks and the sentence breaks in the window of the chunk
\* that is about to be written
ParasInWindow == {q \in WindowOf(cur.raw_end) : OccursAt(full_text, ParaBreak, q)}

DotsInWindow == {q \in WindowOf(cur.raw_end) : OccursAt(full_text, SentenceBreak, q)}

Least(S) == CHOOSE x \in S : \A y \in S : x <= y

RECURSIVE SumWords(_)
SumWords(cs) == IF cs = <<>> THEN 0 ELSE Head(cs).words + SumWords(Tail(cs))

RECURSIVE ConcatSpans(_)
ConcatSpans(cs) ==
    IF cs = <<>> THEN <<>>
    ELSE Slice(full_text, Head(cs).start, Head(cs).end) \o ConcatSpans(Tail(cs))

ExampleRun ==
    /\ full_text = ExampleText
    /\ words_per_chunk = 3
    /\ initial_pos = 0
    /\ Len(chunks) >= 1

\* C1 as stated: for the example text, target_word_count = 3 and initial
\* cursor 0, the first chunk ends just after "gamma. " (chunk_end = 18) and
\* its trimmed text is "Alpha beta gamma.".
C1_EndsAfterGamma ==
    ExampleRun =>
        /\ chunks[1].end = 18
        /\ chunks[1].text = Slice(ExampleText, 0, 17)

\* C1 as amended: for the example text, target_word_count = 3 and initial
\* cursor 0, the raw cutoff of the first chunk is just after "gamma"
\* (offset 16), the chunk ends just after the paragraph break that follows
\* "epsilon." (chunk_end = 34), and its trimmed text is
\* "Alpha beta gamma. Delta epsilon.".
C1_EndsAfterParagraph ==
    ExampleRun =>
        /\ chunks[1].start = 0
        /\ chunks[1].raw_end = 16
        /\ chunks[1].end = 34
        /\ chunks[1].text = Slice(ExampleText, 0, 32)

C1_Witness ==
    /\ ExampleRun
    /\ OccursAt(full_text, SentenceBreak, 16)
    /\ OccursAt(full_text, ParaBreak, 32)

\* C2: clean_text is idempotent: a second pass over the result of the first
\* pass changes nothing.
C2_Idempotent == cpasses = 2 => ctext = conce

\* C3: the raw chunk spans are contiguous and non-overlapping: the first
\* starts at the initial cursor, each next one starts where the previous one
\* ends, the last one ends at the cursor, their concatenation is
\* text[initial_cursor:cursor], and each written chunk text is its raw span
\* without some whitespace at its two ends.
C3_SpansContiguous ==
    pc \in {"loop", "write", "done", "aborted"} =>
        /\ (chunks # <<>> => chunks[1].start = initial_pos)
        /\ \A i \in 1..(Len(chunks) - 1) : chunks[i + 1].start = chunks[i].end
        /\ \A i \in 1..Len(chunks) : chunks[i].start < chunks[i].end
        /\ (chunks # <<>> => chunks[Len(chunks)].end = current_pos)
        /\ ConcatSpans(chunks) = Slice(full_text, initial_pos, current_pos)
        /\ \A i \in 1..Len(chunks) :
              LET raw == Slice(full_text, chunks[i].start, chunks[i].end)
                  txt == chunks[i].text
              IN  \E l \in 0..(Len(raw) - Len(txt)) :
                     /\ SubSeq(raw, l + 1, l + Len(txt)) = txt
                     /\ \A k \in 1..l : IsSpace(raw[k])
                     /\ \A k \in (l + Len(txt) + 1)..Len(raw) : IsSpace(raw[k])
                     /\ fs[chunks[i].name] = txt

C3_Witness ==
    /\ pc = "done"
    /\ Len(chunks) >= 3
    /\ initial_pos > 0
    /\ \E i \in 1..Len(chunks) :
          Len(chunks[i].text) < chunks[i].end - chunks[i].start

\* C4: when a paragraph break starts inside the window of raw_end, the chunk
\* ends just after the first such break, even if a sentence break in the
\* window is nearer; the first sentence break in the window is used only
\* when no paragraph break is in the window.
C4_ParagraphFirst ==
    pc = "write" =>
        /\ (ParasInWindow # {} => cur.chunk_end = Least(ParasInWindow) + 2)
        /\ ((ParasInWindow = {} /\ DotsInWindow # {}) =>
              cur.chunk_end = Least(DotsInWindow) + 2)

C4_Witness ==
    /\ pc = "write"
    /\ ParasInWindow # {}
    /\ DotsInWindow # {}
    /\ Least(DotsInWindow) < Least(ParasInWindow)
    /\ cur.chunk_end = Least(ParasInWindow) + 2

\* C5: raw_end is the offset just after a word token, and when neither a
\* paragraph break nor a sentence break starts within the window of raw_end,
\* the chunk ends at raw_end exactly, also when a break exists farther away.
C5_HardCut ==
    pc = "write" =>
        /\ cur.raw_end > cur.chunk_start
        /\ IsWord(full_text[cur.raw_end])
        /\ cur.raw_end = Len(full_text) \/ ~IsWord(full_text[cur.raw_end + 1])
        /\ (ParasInWindow = {} /\ DotsInWindow = {}) =>
              cur.chunk_end = cur.raw_end

C5_Witness ==
    /\ pc = "write"
    /\ ParasInWindow = {}
    /\ DotsInWindow = {}
    /\ \E q \in (cur.raw_end + Window)..Len(full_text) :
          OccursAt(full_text, ParaBreak, q) \/ OccursAt(full_text, SentenceBreak, q)
    /\ cur.chunk_end = cur.raw_end

\* the step in which the write of the current chunk fails: afterwards the
\* chunk's file does not hold the chunk's text
FailedWrite ==
    /\ pc = "write"
    /\ \/ cur.filename \notin DOMAIN fs'
       \/ fs'[cur.filename] # cur.chunk_text

\* C6: a failing write aborts the run: the cursor, the date, the chunk
\* counter and the progress are not advanced, no statistics are produced,
\* the files of the chunks written before hold their texts, and nothing
\* happens after the abort.
C6_WriteFailureAborts ==
    [][(FailedWrite =>
           /\ pc' = "aborted"
           /\ current_pos' = current_pos
           /\ current_date' = current_date
           /\ chunk_count' = chunk_count
           /\ pbar' = pbar
           /\ chunks' = chunks
           /\ stats' = NoStats
           /\ \A i \in 1..Len(chunks) :
                 /\ chunks[i].name \in DOMAIN fs'
                 /\ fs'[chunks[i].name] = chunks[i].text)
       /\ (pc = "aborted" => UNCHANGED vars)]_vars

C6_Witness ==
    /\ pc = "aborted"
    /\ Len(chunks) >= 2
    /\ Cardinality(DOMAIN fs) = Len(chunks) + 1
    /\ current_pos < Len(full_text)

\* C7: the i-th written chunk (from 0) has the date start_date + i days, and
\* no two chunks of a run share a printed date or a file name.
C7_DatesConsecutive ==
    /\ \A i \in 1..Len(chunks) :
          /\ chunks[i].date = start_date + (i - 1)
          /\ chunks[i].name[1] = chunks[i].date_str
    /\ \A i, j \in 1..Len(chunks) :
          i # j => /\ chunks[i].date_str # chunks[j].date_str
                   /\ chunks[i].name # chunks[j].name
    /\ (pc \in {"loop", "write", "done"} =>
          /\ Cardinality(DOMAIN fs) = Len(chunks)
          /\ chunk_count = Len(chunks))

C7_Witness ==
    /\ Len(chunks) >= 3
    /\ chunks[1].date_str[2] # chunks[3].date_str[2]

\* C8: the cursor stays within 0..len(full_text), also after a chunk end was
\* snapped past a break at the very end of the document, and never decreases.
C8_CursorInRange ==
    /\ [](0 <= current_pos /\ current_pos <= Len(full_text))
    /\ [][current_pos' >= current_pos]_vars

C8_Witness ==
    /\ chunks # <<>>
    /\ current_pos = Len(full_text)
    /\ chunks[Len(chunks)].end = current_pos
    /\ chunks[Len(chunks)].end = chunks[Len(chunks)].raw_end + 2

\* C9: the loop terminates: every iteration either leaves the loop or writes
\* a chunk with chunk_end > chunk_start and moves the cursor forward, and
\* every run that entered the loop ends.
C9_LoopTerminates ==
    /\ [][(pc = "write" /\ pc' = "loop") =>
             (cur.chunk_end > cur.chunk_start /\ current_pos' > current_pos)]_vars
    /\ [](pc = "write" => cur.chunk_end > cur.chunk_start)
    /\ (pc = "loop") ~> (pc \in {"done", "aborted"})

C9_Witness ==
    /\ pc = "done"
    /\ Len(chunks) >= 3
    /\ current_pos < Len(full_text)

\* C10: when a run completes, the recounted words of the written chunks add
\* up to count_words(full_text[initial_cursor:]), no word is left after the
\* final cursor, and from initial cursor 0 the progress adds up to
\* total_words.
C10_WordsConserved ==
    pc = "done" =>
        /\ SumWords(chunks) = count_words(Slice(full_text, initial_pos, Len(full_text)))
        /\ count_words(Slice(full_text, current_pos, Len(full_text))) = 0
        /\ pbar = SumWords(chunks)
        /\ (initial_pos = 0 => pbar = total_words)

C10_Witness ==
    /\ pc = "done"
    /\ Len(chunks) >= 2
    /\ initial_pos = 0
    /\ total_words > 0
    /\ \E i \in 1..Len(chunks) : chunks[i].words > words_per_chunk

====
